---- MODULE Spec2Model ----
(***************************************************************************)
(* Model of src/project.py: the optimal-partition dynamic programme        *)
(* (segment) with its process-wide fit/residual caches, the random         *)
(* sampling height estimator (ransac_z_fit) and the construction of the    *)
(* eight box vertices (bounding_box_3d).                                   *)
(*                                                                         *)
(* Numbers.  The program works on floats.  Here signal samples are small   *)
(* integers, a fitted parabola is kept exactly (its three coefficients in  *)
(* the orthogonal basis 1, u, q of the range), and a residual is the exact *)
(* sum of squared deviations, stored in fixed point with resolution        *)
(* 1/Scale.                                                                *)
(***************************************************************************)
EXTENDS Integers, Sequences, FiniteSets, TLC

\* ---------------------------------------------------------------- bounds
MaxN == 13          \* longest signal
MaxK == 4           \* largest number of segments asked for
MaxBoxZ == 1        \* the two heights of the box are 0..MaxBoxZ
Scale == 140        \* fixed-point resolution of a stored residual
MaxPts == 3         \* most points handed to ransac_z_fit
MaxZ == 2           \* z values are 0..MaxZ
MaxIter == 3        \* most RANSAC iterations
MaxThr == 2         \* thresholds are 0..MaxThr
MaxXY == 2          \* path point coordinates are 2*(0..MaxXY)

\* np.inf (project.py:163, 172): larger than every finite table entry
Inf == 2000000000

VARIABLES
    n,               \* number of points of the run (len(points), project.py:270)
    k,               \* number of segments of the run (project.py:271)
    parabola_cache,  \* project.py:8   key (start,end) -> fitted parabola
    mse_cache,       \* project.py:9   key (start,end) -> residual
    called,          \* TRUE once a segment call has returned
    distances,       \* argument and locals of the last segment call
    D,
    P,
    path,
    raised,          \* the error the last segment call raised, "" for none
    points_z,        \* ransac_z_fit: points[:, 2]
    iterations,
    threshold,
    samples,         \* indices drawn so far (history of np.random.choice)
    best_z,          \* <<>> is None, <<z>> is the value z
    best_inliers,
    returned,        \* TRUE once ransac_z_fit has returned
    path_points,     \* bounding_box_3d: points[path], four (x, y) pairs
    floor_z,
    ceiling_z,
    rectangle_3d     \* <<>> until built

vars == <<n, k, parabola_cache, mse_cache, called, distances, D, P, path, raised,
          points_z, iterations, threshold, samples, best_z, best_inliers,
          returned, path_points, floor_z, ceiling_z, rectangle_3d>>

segVars == <<n, k, parabola_cache, mse_cache, called, distances, D, P, path,
             raised>>
ransacVars == <<points_z, iterations, threshold, samples, best_z,
                best_inliers, returned>>
boxVars == <<path_points, floor_z, ceiling_z, rectangle_3d>>

\* ------------------------------------------------------------ arithmetic
RECURSIVE Gcd(_, _)
Gcd(a, b) == IF b = 0 THEN a ELSE Gcd(b, a % b)

Lcm(a, b) == (a \div Gcd(a, b)) * b

\* sum of f[0] .. f[j]
RECURSIVE SumTo(_, _)
SumTo(f, j) == IF j < 0 THEN 0 ELSE f[j] + SumTo(f, j - 1)

\* Orthogonal basis of the quadratics on m consecutive abscissae 0..m-1:
\* 1, u = 2x-(m-1), q = 3u^2-(m^2-1); their squared norms are m, NormU, NormQ.
BasisU(m) == [j \in 0..(m - 1) |-> 2 * j - (m - 1)]
BasisQ(m) == [j \in 0..(m - 1) |-> 3 * (2 * j - (m - 1)) * (2 * j - (m - 1)) - (m * m - 1)]
NormU(m) == SumTo([j \in 0..(m - 1) |-> BasisU(m)[j] * BasisU(m)[j]], m - 1)
NormQ(m) == SumTo([j \in 0..(m - 1) |-> BasisQ(m)[j] * BasisQ(m)[j]], m - 1)
\* tabulated once for every range length: <<NormU, NormQ, common denominator>>
\* (a range shorter than 3 is never fitted, project.py:177)
RECURSIVE NormsUpTo(_)
NormsUpTo(m) ==
    IF m = 0
    THEN <<>>
    ELSE Append(NormsUpTo(m - 1),
                IF m < 3
                THEN <<0, 0, 1>>
                ELSE <<NormU(m), NormQ(m), Lcm(m, Lcm(NormU(m), NormQ(m)))>>)
Norms == NormsUpTo(MaxN)
Den(m) == Norms[m][3]

\* distances[start:end] as a function on 0..end-start-1 (distances is 1-based here)
Slice(start, end, dist) == [j \in 0..(end - start - 1) |-> dist[start + j + 1]]

\* projections of the samples y (on 0..m-1) on the three basis vectors
Project(y, m) ==
    << SumTo(y, m - 1),
       SumTo([j \in 0..(m - 1) |-> BasisU(m)[j] * y[j]], m - 1),
       SumTo([j \in 0..(m - 1) |-> BasisQ(m)[j] * y[j]], m - 1) >>

\* np.polyfit(x, y, 2): the least-squares parabola of distances[start:end],
\* as its projections <<a0, a1, a2>>; the polynomial is
\* a0/m + (a1/NormU) u + (a2/NormQ) q.
PolyFit(start, end, dist) == Project(Slice(start, end, dist), end - start)

\* np.sum((y - parab(x))**2), exactly, as a numerator over Den(m)
SumSqDevNum(start, end, dist, parab) ==
    LET m == end - start
        y == Slice(start, end, dist)
        b == Project(y, m)
        yy == SumTo([j \in 0..(m - 1) |-> y[j] * y[j]], m - 1)
        L == Den(m)
    IN  yy * L
        + (parab[1] * parab[1] - 2 * parab[1] * b[1]) * (L \div m)
        + (parab[2] * parab[2] - 2 * parab[2] * b[2]) * (L \div Norms[m][1])
        + (parab[3] * parab[3] - 2 * parab[3] * b[3]) * (L \div Norms[m][2])

\* the residual as stored: floor(Scale * num / den)
FixedPoint(num, den) == Scale * (num \div den) + (Scale * (num % den)) \div den

SumSqDev(start, end, dist, parab) ==
    FixedPoint(SumSqDevNum(start, end, dist, parab), Den(end - start))

\* float addition with np.inf
Plus(a, b) == IF a = Inf \/ b = Inf THEN Inf ELSE a + b

\* ------------------------------------------------------------ the caches
\* generate_parab (project.py:82-112): the value returned
generate_parab(start, end, dist, pcache) ==
    IF <<start, end>> \in DOMAIN pcache
    THEN pcache[<<start, end>>]
    ELSE PolyFit(start, end, dist)

\* MSE (project.py:114-145): the value returned
MSE(start, end, dist, parab, mcache) ==
    IF <<start, end>> \in DOMAIN mcache
    THEN mcache[<<start, end>>]
    ELSE SumSqDev(start, end, dist, parab)

\* the keys the loops of segment(nn, kk, .) pass to generate_parab and MSE
Probed(nn, kk) ==
    {key \in (0..nn) \X (0..nn) :
        /\ key[2] - key[1] >= 3
        /\ \E length \in 1..kk : key[2] >= length /\ key[1] <= key[2] - length}

\* the caches when segment returns: the old entries are kept, and every
\* probed key that was missing holds the value computed from this call's
\* distances (project.py:110, 143)
ParabAfter(nn, kk, dist, pcache) ==
    pcache @@ [key \in Probed(nn, kk) \ DOMAIN pcache |->
                  PolyFit(key[1], key[2], dist)]

MseAfter(nn, kk, dist, pcache, mcache) ==
    mcache @@ [key \in Probed(nn, kk) \ DOMAIN mcache |->
                  MSE(key[1], key[2], dist,
                      generate_parab(key[1], key[2], dist, pcache), mcache)]

\* ------------------------------------------------- segment: the DP tables
\* project.py:172-187, the scan of the candidate starts start..(end-length)
\* for one (end, length); prevRow[s+1] is D[s, length-1], mse[<<s, end>>] the
\* value MSE returned.  The result is <<min_dist, min_index>>.
RECURSIVE ScanStartsLastWins(_, _, _, _, _, _, _)
ScanStartsLastWins(start, end, length, prevRow, mse, min_dist, min_index) ==
    IF start > end - length
    THEN <<min_dist, min_index>>
    ELSE IF end - start < 3
         THEN ScanStartsLastWins(start + 1, end, length, prevRow, mse, min_dist, min_index)
         ELSE LET cand == Plus(prevRow[start + 1][1], mse[<<start, end>>])
              IN  IF cand # Inf /\ cand <= min_dist
                  THEN ScanStartsLastWins(start + 1, end, length, prevRow, mse, cand, start)
                  ELSE ScanStartsLastWins(start + 1, end, length, prevRow, mse, min_dist, min_index)

RECURSIVE ScanStarts(_, _, _, _, _, _, _)
ScanStarts(start, end, length, prevRow, mse, min_dist, min_index) ==
    IF start > end - length
    THEN <<min_dist, min_index>>
    ELSE IF end - start < 3
         THEN ScanStarts(start + 1, end, length, prevRow, mse, min_dist, min_index)
         ELSE LET cand == Plus(prevRow[start + 1][1], mse[<<start, end>>])
              IN  IF cand < min_dist
                  THEN ScanStarts(start + 1, end, length, prevRow, mse, cand, start)
                  ELSE ScanStarts(start + 1, end, length, prevRow, mse, min_dist, min_index)

\* project.py:171-191 for one length: cells <<D[end, length], P[end, length]>>
\* for end = 0..upto; the cells with end < length keep their initial values
RECURSIVE LayerRow(_, _, _, _)
LayerRow(upto, length, prevRow, mse) ==
    IF upto < 0
    THEN <<>>
    ELSE Append(LayerRow(upto - 1, length, prevRow, mse),
                IF upto < length
                THEN <<Inf, -1>>
                ELSE ScanStarts(0, upto, length, prevRow, mse, Inf, -1))

\* project.py:163-166: column 0 of D and P
InitialRow(nn) == [e \in 1..(nn + 1) |-> IF e = 1 THEN <<0, -1>> ELSE <<Inf, -1>>]

\* project.py:169: the layers 0..kk, each computed from the one before
RECURSIVE Layers(_, _, _, _, _)
Layers(length, nn, kk, mse, acc) ==
    IF length > kk
    THEN acc
    ELSE Layers(length + 1, nn, kk, mse,
                Append(acc, LayerRow(nn, length, acc[length], mse)))

DPTable(nn, kk, mse) == Layers(1, nn, kk, mse, <<InitialRow(nn)>>)

TableD(nn, kk, tbl) == [e \in 0..nn |-> [l \in 0..kk |-> tbl[l + 1][e + 1][1]]]
TableP(nn, kk, tbl) == [e \in 0..nn |-> [l \in 0..kk |-> tbl[l + 1][e + 1][2]]]

\* ------------------------------------------- segment: the reconstruction
\* numpy row index: a negative index counts from the end of the n+1 rows
RowIndex(nn, i) == IF i < 0 THEN i + (nn + 1) ELSE i

\* project.py:196-198, iterations i, i-1, .., 1 starting with `current`;
\* the entries in the order they are appended
RECURSIVE Walk(_, _, _, _)
Walk(i, current, nn, Pt) ==
    IF i = 0
    THEN <<>>
    ELSE <<current - 1>> \o Walk(i - 1, Pt[RowIndex(nn, current)][i], nn, Pt)

RECURSIVE Reverse(_)
Reverse(s) == IF s = <<>> THEN <<>> ELSE Append(Reverse(Tail(s)), Head(s))

\* project.py:193-200
Reconstruct(nn, kk, Pt) == Reverse(Walk(kk, Pt[nn][kk], nn, Pt))

\* ------------------------------------------------------------ the inputs
\* signals of length nn: all zero (i = 0) or one unit impulse at sample i
Impulse(nn, i) == [j \in 1..nn |-> IF j = i THEN 1 ELSE 0]
Signals(nn) == {Impulse(nn, i) : i \in 0..nn}

\* ---------------------------------------------------------------- segment
\* segment(n, k, dist), project.py:148-200, as one step; each intermediate
\* value is bound once
segment(dist) ==
    \E mseT \in {MseAfter(n, k, dist, parabola_cache, mse_cache)} :
    \E tbl \in {DPTable(n, k, mseT)} :
    \E Pt \in {TableP(n, k, tbl)} :
        /\ parabola_cache' = ParabAfter(n, k, dist, parabola_cache)
        /\ mse_cache' = mseT
        /\ distances' = dist
        /\ D' = TableD(n, k, tbl)
        /\ P' = Pt
        /\ path' = Reconstruct(n, k, Pt)
        /\ raised' = ""
        /\ called' = TRUE
        /\ UNCHANGED <<n, k, ransacVars, boxVars>>

SegmentCall == \E dist \in Signals(n) : segment(dist)

\* ----------------------------------------------------------- ransac_z_fit
\* project.py:224, np.sum(np.abs(points[:, 2] - sample_z) < threshold)
Inliers(pz, sample_z, thr) ==
    Cardinality({i \in 1..Len(pz) :
        (IF pz[i] >= sample_z THEN pz[i] - sample_z ELSE sample_z - pz[i]) < thr})

\* project.py:218-228, the iterations j..Len(draws) of the loop; draws[j] is
\* the index np.random.choice returns in iteration j; the result is
\* <<best_z, best_inliers>>
RECURSIVE SampleLoopLastWins(_, _, _, _, _, _)
SampleLoopLastWins(j, draws, pz, thr, bz, bi) ==
    IF j > Len(draws)
    THEN <<bz, bi>>
    ELSE LET sample_z == pz[draws[j]]
             inliers == Inliers(pz, sample_z, thr)
         IN  IF inliers >= bi
             THEN SampleLoopLastWins(j + 1, draws, pz, thr, <<sample_z>>, inliers)
             ELSE SampleLoopLastWins(j + 1, draws, pz, thr, bz, bi)

RECURSIVE SampleLoop(_, _, _, _, _, _)
SampleLoop(j, draws, pz, thr, bz, bi) ==
    IF j > Len(draws)
    THEN <<bz, bi>>
    ELSE LET sample_z == pz[draws[j]]
             inliers == Inliers(pz, sample_z, thr)
         IN  IF inliers > bi
             THEN SampleLoop(j + 1, draws, pz, thr, <<sample_z>>, inliers)
             ELSE SampleLoop(j + 1, draws, pz, thr, bz, bi)

\* sequences of length len over S
SeqsOf(S, len) == [1..len -> S]

\* ransac_z_fit(points, iters, thr), project.py:202-230, as one step
ransac_z_fit(pz, iters, thr, draws) ==
    LET res == SampleLoop(1, draws, pz, thr, <<>>, 0)
    IN  /\ points_z' = pz
        /\ iterations' = iters
        /\ threshold' = thr
        /\ samples' = draws
        /\ best_z' = res[1]
        /\ best_inliers' = res[2]
        /\ returned' = TRUE
        /\ UNCHANGED <<segVars, boxVars>>

RansacCall ==
    /\ ~returned
    /\ \E len \in 1..MaxPts : \E pz \in SeqsOf(0..MaxZ, len) :
       \E iters \in 0..MaxIter : \E thr \in 0..MaxThr :
       \E draws \in SeqsOf(1..len, iters) :
           ransac_z_fit(pz, iters, thr, draws)

\* -------------------------------------------------------- bounding_box_3d
\* np.argsort of four values: insertion of index i into the sorted indices
RECURSIVE InsertIdx(_, _, _)
InsertIdx(sorted, i, vals) ==
    IF sorted = <<>>
    THEN <<i>>
    ELSE IF vals[i] < vals[Head(sorted)]
         THEN <<i>> \o sorted
         ELSE <<Head(sorted)>> \o InsertIdx(Tail(sorted), i, vals)

RECURSIVE ArgSortUpTo(_, _)
ArgSortUpTo(i, vals) ==
    IF i = 0 THEN <<>> ELSE InsertIdx(ArgSortUpTo(i - 1, vals), i, vals)

ArgSort(vals) == ArgSortUpTo(Len(vals), vals)

\* project.py:286
avg(x, y) == (x + y) \div 2

RectangleMiddlePair(pp) ==
    LET sx == ArgSort([i \in 1..Len(pp) |-> pp[i][1]])
        sy == ArgSort([i \in 1..Len(pp) |-> pp[i][2]])
        path_x == [i \in 1..Len(pp) |-> pp[sx[i]]]
        path_y == [i \in 1..Len(pp) |-> pp[sy[i]]]
    IN  << <<avg(path_x[1][1], path_x[2][1]), avg(path_y[1][2], path_y[2][2])>>,
           <<avg(path_x[2][1], path_x[3][1]), avg(path_y[1][2], path_y[2][2])>>,
           <<avg(path_x[3][1], path_x[4][1]), avg(path_y[3][2], path_y[4][2])>>,
           <<avg(path_x[1][1], path_x[2][1]), avg(path_y[3][2], path_y[4][2])>> >>

\* project.py:282-292: lower_left, lower_right, upper_right, upper_left
Rectangle(pp) ==
    LET sx == ArgSort([i \in 1..Len(pp) |-> pp[i][1]])
        sy == ArgSort([i \in 1..Len(pp) |-> pp[i][2]])
        path_x == [i \in 1..Len(pp) |-> pp[sx[i]]]
        path_y == [i \in 1..Len(pp) |-> pp[sy[i]]]
    IN  << <<avg(path_x[1][1], path_x[2][1]), avg(path_y[1][2], path_y[2][2])>>,
           <<avg(path_x[3][1], path_x[4][1]), avg(path_y[1][2], path_y[2][2])>>,
           <<avg(path_x[3][1], path_x[4][1]), avg(path_y[3][2], path_y[4][2])>>,
           <<avg(path_x[1][1], path_x[2][1]), avg(path_y[3][2], path_y[4][2])>> >>

\* project.py:326-335
Box3D(rect, fz, cz) ==
    [i \in 1..8 |-> IF i <= 4
                    THEN <<rect[i][1], rect[i][2], fz>>
                    ELSE <<rect[i - 4][1], rect[i - 4][2], cz>>]

\* the part of bounding_box_3d that builds the box (project.py:281-292 and
\* 325-337) from points[path] and the two estimated heights, as one step
bounding_box_3d(pp, fz, cz) ==
    /\ path_points' = pp
    /\ floor_z' = fz
    /\ ceiling_z' = cz
    /\ rectangle_3d' = Box3D(Rectangle(pp), fz, cz)
    /\ UNCHANGED <<segVars, ransacVars>>

\* coordinates of the path points: even, so that avg is exact
Coords == {2 * c : c \in 0..MaxXY}

BoxCall ==
    /\ rectangle_3d = <<>>
    /\ \E pp \in SeqsOf(Coords \X Coords, 4) :
       \E fz \in 0..MaxBoxZ : \E cz \in 0..MaxBoxZ :
           bounding_box_3d(pp, fz, cz)

\* ---------------------------------------------------------- specifications
Empty == [key \in {} |-> 0]

Init ==
    /\ n \in 1..MaxN
    /\ k \in 1..MaxK
    /\ parabola_cache = Empty
    /\ mse_cache = Empty
    /\ called = FALSE
    /\ distances = <<>> /\ D = <<>> /\ P = <<>> /\ path = <<>>
    /\ raised = ""
    /\ points_z = <<>> /\ iterations = 0 /\ threshold = 0
    /\ samples = <<>> /\ best_z = <<>> /\ best_inliers = 0 /\ returned = FALSE
    /\ path_points = <<>> /\ floor_z = 0 /\ ceiling_z = 0 /\ rectangle_3d = <<>>

Next == SegmentCall

\* the process calling segment
Spec == Init /\ [][Next]_vars

InitOne == Init /\ n = 1 /\ k = 1

NextRansac == RansacCall

\* a call of ransac_z_fit
SpecRansac == InitOne /\ [][NextRansac]_vars

NextBox == BoxCall

\* the construction of the box
SpecBox == InitOne /\ [][NextBox]_vars

\* ------------------------------------------------------ claims on segment
MinOf(S) == CHOOSE x \in S : \A y \in S : x <= y

\* the cost of ending segment number `length` at `end` when it starts at s,
\* with the residual the call was given for (s, end)
Cost(s, end, length) == Plus(D[s][length - 1], mse_cache[<<s, end>>])

\* every start the recurrence of the design allows for a segment ending at end
EveryStart(end) == {s \in 0..(end - 1) : end - s >= 3}

\* the starts the loop of project.py:176 visits for (end, length)
Scanned(end, length) == {s \in 0..(end - length) : end - s >= 3}

\* the predecessor chain of the design: the start of segment number j of the
\* k segments that end at n, each step moving to the previous layer
RECURSIVE ChainStart(_)
ChainStart(j) == IF j = k THEN P[n][k] ELSE P[ChainStart(j + 1)][j]

ChainEnd(j) == IF j = k THEN n ELSE ChainStart(j + 1)

RECURSIVE ChainResidual(_)
ChainResidual(j) ==
    IF j = 0 THEN 0
    ELSE Plus(ChainResidual(j - 1), mse_cache[<<ChainStart(j), ChainEnd(j)>>])

\* C1: after the DP, D[end][length] is the minimum of D[start][length-1] +
\* residual(start, end) over every start with 0 <= start < end and
\* end - start >= 3 (+infinity when there is none), D[0][0] = 0 and
\* D[e][0] = +infinity for e > 0.
C1_RecurrenceOverEveryStart ==
    called =>
        /\ D[0][0] = 0
        /\ \A e \in 1..n : D[e][0] = Inf
        /\ \A length \in 1..k : \A end \in length..n :
              D[end][length] =
                  MinOf({Cost(s, end, length) : s \in EveryStart(end)} \cup {Inf})

\* C2: when a partition is found, the returned path is the predecessor chain
\* s_k = P[n][k], s_(k-1) = P[s_k][k-1], .., s_1 = P[s_2][1], each minus one,
\* and the chain is a k-segment partition of [0, n) of total residual D[n][k].
C2_PathIsPredecessorChain ==
    (called /\ D[n][k] # Inf) =>
        /\ path = [j \in 1..k |-> ChainStart(j) - 1]
        /\ ChainStart(1) = 0
        /\ \A j \in 1..k : ChainEnd(j) - ChainStart(j) >= 3
        /\ ChainResidual(k) = D[n][k]

\* C3: when D[n][k] is still +infinity after the DP (in particular when
\* 3k > n), segment fails with PartitionInfeasible and returns no path.
C3_InfeasibleFails ==
    (called /\ D[n][k] = Inf) => (raised = "PartitionInfeasible" /\ path = <<>>)

\* C4: for n >= 3k the DP ends with D[n][k] finite, and for n = 3k the
\* partition found has the segment starts 0, 3, 6, .., 3(k-1).
C4_FeasibleFromThreeK ==
    (called /\ n >= 3 * k) =>
        /\ D[n][k] # Inf
        /\ (n = 3 * k => \A j \in 1..k : ChainStart(j) = 3 * (j - 1))

\* the path of segment(n, k, distances) in a process that has made no call
\* before: both caches empty
FreshPath ==
    LET mseT == MseAfter(n, k, distances, Empty, Empty)
    IN  Reconstruct(n, k, TableP(n, k, DPTable(n, k, mseT)))

\* C5: for fixed (signal, n, k) segment returns the same path whatever calls
\* were made before it in the process.
C5_SamePathOnEveryCall == called => path = FreshPath

\* C6: adding a segment never increases the optimal total residual,
\* D[n][l+1] <= D[n][l]; stated where a partition into l+1 segments exists
\* (n >= 3(l+1)), the layers l and l+1 being those of one call.
C6_ResidualMonotone ==
    called =>
        \A l \in 1..(k - 1) : n >= 3 * (l + 1) => D[n][l + 1] <= D[n][l]

\* C9: for n >= 3k the path is strictly ascending and every entry lies in
\* -1..n-1.
C9_PathAscendingInRange ==
    (called /\ n >= 3 * k) =>
        /\ \A j \in 1..k : path[j] \in -1..(n - 1)
        /\ \A j \in 1..(k - 1) : path[j] < path[j + 1]

\* C10: the starts are scanned in increasing order and, among the starts of
\* the same minimal cost, P[end][length] is the smallest; D[end][length] is
\* that cost.  A cell none of whose scanned starts has a finite cost keeps
\* +infinity and -1.
C10_EarliestStartWinsTies ==
    called =>
        \A length \in 1..k : \A end \in length..n :
            LET finite == {s \in Scanned(end, length) : Cost(s, end, length) # Inf}
            IN  IF finite = {}
                THEN D[end][length] = Inf /\ P[end][length] = -1
                ELSE /\ P[end][length] \in finite
                     /\ D[end][length] = Cost(P[end][length], end, length)
                     /\ \A s \in finite :
                           /\ Cost(s, end, length) >= D[end][length]
                           /\ s < P[end][length] =>
                                 Cost(s, end, length) > D[end][length]

\* a cell where two scanned starts tie at the minimal cost and a third costs
\* more: the first of the tied starts is recorded
C10_TieReached ==
    /\ called
    /\ \E length \in 1..k : \E end \in length..n :
       \E s1 \in Scanned(end, length) : \E s2 \in Scanned(end, length) :
       \E s3 \in Scanned(end, length) :
          /\ s1 < s2
          /\ Cost(s1, end, length) # Inf
          /\ Cost(s1, end, length) = Cost(s2, end, length)
          /\ Cost(s3, end, length) > Cost(s1, end, length)
          /\ Cost(s3, end, length) # Inf
          /\ D[end][length] = Cost(s1, end, length)
          /\ P[end][length] = s1

\* ------------------------------------------------- claims on ransac_z_fit
\* the inlier count of the sample drawn in iteration j
CountOf(j) == Inliers(points_z, points_z[samples[j]], threshold)

MaxCount == CHOOSE c \in {CountOf(j) : j \in 1..Len(samples)} :
                \A j \in 1..Len(samples) : CountOf(j) <= c

FirstBest == CHOOSE j \in 1..Len(samples) :
                 /\ CountOf(j) = MaxCount
                 /\ \A i \in 1..(j - 1) : CountOf(i) < MaxCount

\* C7: for non-empty points, iterations >= 1 and threshold > 0, the result is
\* (z, c) with c the largest inlier count (strict comparison with the
\* threshold) over the samples drawn, and z the z of the first sample of that
\* count: always the z of a sampled point.
C7_FirstBestSampleKept ==
    (returned /\ Len(points_z) >= 1 /\ iterations >= 1 /\ threshold > 0) =>
        /\ Len(samples) = iterations
        /\ best_inliers = MaxCount
        /\ best_z = <<points_z[samples[FirstBest]]>>
        /\ \E j \in 1..Len(samples) : best_z = <<points_z[samples[j]]>>

\* a later sample has the count of the retained one and another z, and the
\* retained z is the earlier one
C7_TieAfterBest ==
    /\ returned /\ iterations >= 2 /\ threshold > 0
    /\ \E j \in (FirstBest + 1)..Len(samples) :
          /\ CountOf(j) = MaxCount
          /\ points_z[samples[j]] # points_z[samples[FirstBest]]
    /\ best_z = <<points_z[samples[FirstBest]]>>
    /\ best_inliers = MaxCount

\* ---------------------------------------------- claims on bounding_box_3d
PairSums(c) == {path_points[i][c] + path_points[j][c] :
                   <<i, j>> \in {q \in (1..4) \X (1..4) : q[1] < q[2]}}

MaxOf(S) == CHOOSE x \in S : \A y \in S : x >= y

\* C8: eight vertices, lower left, lower right, upper right, upper left at
\* floorZ then the same four at ceilingZ; vertex i and i+4 have the same
\* (x, y); the left/right x are the means of the two smallest/two largest x
\* of the four path points, the bottom/top y likewise.
C8_BoxVertices ==
    rectangle_3d # <<>> =>
        LET v == rectangle_3d
        IN  /\ DOMAIN v = 1..8
            /\ \A i \in 1..4 : /\ v[i][1] = v[i + 4][1]
                               /\ v[i][2] = v[i + 4][2]
                               /\ v[i][3] = floor_z
                               /\ v[i + 4][3] = ceiling_z
            /\ v[1][1] = v[4][1] /\ v[2][1] = v[3][1] /\ v[1][1] <= v[2][1]
            /\ v[1][2] = v[2][2] /\ v[4][2] = v[3][2] /\ v[1][2] <= v[4][2]
            /\ 2 * v[1][1] = MinOf(PairSums(1))
            /\ 2 * v[2][1] = MaxOf(PairSums(1))
            /\ 2 * v[1][2] = MinOf(PairSums(2))
            /\ 2 * v[4][2] = MaxOf(PairSums(2))

\* a box built on four points of pairwise different x and y, between two
\* different heights
C8_BoxBuilt ==
    /\ rectangle_3d # <<>>
    /\ floor_z # ceiling_z
    /\ Cardinality({path_points[i][1] : i \in 1..4}) >= 3
    /\ Cardinality({path_points[i][2] : i \in 1..4}) >= 3
    /\ rectangle_3d[1][1] < rectangle_3d[2][1]
    /\ rectangle_3d[1][2] < rectangle_3d[4][2]

====
